---- MODULE Spec2Model ----
(***************************************************************************)
(* Monte Carlo hotel revenue simulator (hotel.py and                       *)
(* hotel_revenue_gui.py).                                                  *)
(*                                                                         *)
(* Numbers are fixed point: fractions (occupancy, seasonality, std-dev     *)
(* fractions, correlation, elasticity, z shocks) are in thousandths and    *)
(* money is in cents.  np.random is one global generator: a state that     *)
(* every draw advances.  Its start state is arbitrary (the scripts never   *)
(* seed it).                                                               *)
(***************************************************************************)
EXTENDS Integers, Sequences, FiniteSets, TLC

VARIABLES
    variant,            \* which script runs: "hotel" (hotel.py) or "gui" (hotel_revenue_gui.py)
    session,            \* st.session_state: the widget values, by key
    file_exists,        \* saved_scenario.json exists
    saved_scenario,     \* content of saved_scenario.json
    rng,                \* state of the global np.random generator
    pc,                 \* position of the script: "inputs", "loop", "results", "done"
    executed,           \* months whose loop body has run, in execution order
    results_monthly,    \* dict month -> monthly_revenue array
    z1, z2,             \* script variables left by the last loop body
    occupancy_sim, adr_sim, spend_sim,
    yearly_revenue_sim,
    p5, p95,            \* np.percentile(yearly_revenue_sim, 5 / 95)
    rng_start,          \* history: generator state when the script started
    block_start,        \* history: generator state at the start of each loop body run, in execution order
    out_of_order,       \* history: loop bodies run ahead of a lower pending month
    edits,              \* history: number of widget changes made
    snapshot,           \* history: the widget values when "Save Current Scenario" was last pressed
    last_op             \* history: last scenario operation: "none", "edit", "save", "load", "load_failed"

vars == <<variant, session, file_exists, saved_scenario, rng, pc, executed,
          results_monthly, z1, z2, occupancy_sim, adr_sim, spend_sim,
          yearly_revenue_sim, p5, p95, rng_start, block_start, out_of_order,
          edits, snapshot, last_op>>

simVars == <<rng, pc, executed, results_monthly, z1, z2, occupancy_sim, adr_sim,
             spend_sim, yearly_revenue_sim, p5, p95, rng_start, block_start,
             out_of_order>>

scenarioVars == <<session, file_exists, saved_scenario, edits, snapshot, last_op>>

----------------------------------------------------------------------------
(* Bounds of the model *)

MaxTrials == 2          \* n_simulations ranges over 1..MaxTrials
RngMod == 32            \* number of states of the abstract generator
MaxOutOfOrder == 1      \* loop bodies that may run ahead of a lower pending month
MaxEdits == 2           \* widget changes explored between scenario operations

----------------------------------------------------------------------------
(* Program constants *)

\* mutant: the loop stops one month early
LastMonthEarly == 12 - 1

LastMonth == 12

Months == 1..LastMonth

\* mutant: February of a leap year
days_in_month_leap ==
    <<31, 29, 31, 30, 31, 30, 31, 31, 30, 31, 30, 31>>

days_in_month ==
    <<31, 28, 31, 30, 31, 30, 31, 31, 30, 31, 30, 31>>

default_seasonality_hotel ==
    <<340, 220, 520, 810, 1000, 1560, 2050, 2390, 1370, 960, 400, 380>>

default_seasonality_gui ==
    <<111, 167, 167, 444, 444, 556, 833, 1000, 833, 444, 333, 222>>

GuiElasticity == 200    \* the literal 0.2 of "adr_sim *= (1 - 0.2 * z2)"

Variants == {"hotel", "gui"}

----------------------------------------------------------------------------
(* Arithmetic helpers *)

Abs(x) == IF x < 0 THEN -x ELSE x

MinOf(a, b) == IF a < b THEN a ELSE b

MaxOf(a, b) == IF a < b THEN b ELSE a

\* mutant: no clip
Clip0Missing(x) == x

\* np.clip(x, 0, None) and "x[x < 0] = 0"
Clip0(x) == IF x < 0 THEN 0 ELSE x

\* np.clip(x, 0, 1) on thousandths
Clip01(x) == IF x < 0 THEN 0 ELSE IF x > 1000 THEN 1000 ELSE x

ISqrt(x) == CHOOSE r \in 0..1500 : r * r <= x /\ (r + 1) * (r + 1) > x

\* np.exp on thousandths: the power series, terms kept in 1/100000
RECURSIVE ExpTerms(_, _, _, _)
ExpTerms(x, term, k, acc) ==
    IF k > 14 \/ term = 0 THEN acc
    ELSE LET next == (term * x) \div (1000 * k)
         IN  ExpTerms(x, next, k + 1, acc + next)

ExpMilli(x) == ExpTerms(x, 100000, 1, 100000) \div 100

\* scipy.stats.norm.cdf on thousandths: tabulated at the integers, linear between
NormCdfKnots == <<0, 1, 23, 159, 500, 841, 977, 999, 1000>>

NormCdf(z) ==
    IF z <= -4000 THEN 0
    ELSE IF z >= 4000 THEN 1000
    ELSE LET k == (z + 4000) \div 1000
             f == (z + 4000) % 1000
             lo == NormCdfKnots[k + 1]
             hi == NormCdfKnots[k + 2]
         IN  lo + (f * (hi - lo)) \div 1000

\* np.interp(x, [0, 1], [lo, hi]) for x in [0, 1]
Interp01(x, lo, hi) == lo + (x * (hi - lo)) \div 1000

----------------------------------------------------------------------------
(* The global np.random generator *)

RngNext(s) == (5 * s + 3) % RngMod

\* values a standard normal draw may take
NormVals == <<-4, -1, 1, 4>>

\* the draw a generator state gives: its quarter of the state range
RngOut(s) == NormVals[(((4 * s) \div RngMod) % 4) + 1]

RECURSIVE RngAdvance(_, _)
RngAdvance(s, k) == IF k = 0 THEN s ELSE RngAdvance(RngNext(s), k - 1)

\* the k-th standard normal drawn from state s (k >= 1)
StdNormalAt(s, k) == RngOut(RngAdvance(s, k))

----------------------------------------------------------------------------
(* Loop body of one month (hotel.py 122-143, hotel_revenue_gui.py 118-132) *)

\* np.random.normal(loc, scale): loc + scale * (a standard normal draw)
Normal(loc, scale, e) == loc + scale * e

\* np.random.multivariate_normal([0,0], [[1,c],[c,1]], n): numpy factors the
\* covariance by SVD (singular values 1+c and |1-c|, vectors (1,1)/sqrt 2 and
\* (1,-1)/sqrt 2) and maps two independent standard normals a, b through it.
\* With check_valid='warn' (the default) a covariance that is not positive
\* semi-definite is only warned about.
\* the correlations the model explores (slider positions, and 1.5)
CorrelationValues == {-1000, -500, 0, 1500}

SqrtHalfOnePlus == [c \in CorrelationValues |-> ISqrt(Abs(1000 + c) * 500)]

SqrtHalfOneMinus == [c \in CorrelationValues |-> ISqrt(Abs(1000 - c) * 500)]

CovCoef1(c) == SqrtHalfOnePlus[c]

CovCoef2(c) == SqrtHalfOneMinus[c]

Z1Of(c, a, b) == CovCoef1(c) * a + CovCoef2(c) * b

Z2Of(c, a, b) == CovCoef1(c) * a - CovCoef2(c) * b

\* draws the loop body makes before the multivariate draw
NoiseDraws(v, n) == IF v = "hotel" THEN n ELSE 0

\* draws one loop body consumes: noise (hotel.py only), z (2n), adr, spend
DrawsPerMonth(v, n) == NoiseDraws(v, n) + 4 * n

\* hotel.py 125-128: coef * noise, clipped at 0; hotel_revenue_gui.py 115: coef
SeasonalAdj(v, ses, m, e) ==
    IF v = "hotel"
    THEN Clip0((ses.seasonality[m] * Normal(1000, ses.seasonality_noise_perc, e)) \div 1000)
    ELSE ses.seasonality[m]

\* mutant: the seasonal adjustment is left out
AdrBaseUnadjusted(ses, adj) == ses.base_adr * 100

\* adr_base = base_adr * seasonal_adj, in cents
AdrBase(ses, adj) == (ses.base_adr * 100 * adj) \div 1000

\* hotel.py 137: exp(-elasticity_coefficient * z2); hotel_revenue_gui.py 126: 1 - 0.2 * z2
ElasticityFactor(v, ses, z) ==
    IF v = "hotel"
    THEN ExpMilli((0 - ses.elasticity_coefficient * z) \div 1000)
    ELSE 1000 - (GuiElasticity * z) \div 1000

\* np.random.normal(adr_base, adr_base * adr_std_dev_percentage), the elasticity
\* factor, then np.clip(adr_sim, 0, None)
AdrSim(v, ses, base, e, z) ==
    Clip0((Normal(base, (base * ses.adr_std_dev_percentage) \div 1000, e)
             * ElasticityFactor(v, ses, z)) \div 1000)

\* mutant: the interpolation passes through occupancy_mode at the median
OccupancySimThroughMode(ses, z) ==
    Clip01(IF NormCdf(z) < 500
           THEN Interp01(2 * NormCdf(z), ses.occupancy_min, ses.occupancy_mode)
           ELSE Interp01(2 * (NormCdf(z) - 500), ses.occupancy_mode, ses.occupancy_max))

\* np.clip(np.interp(norm.cdf(z1), [0, 1], [occupancy_min, occupancy_max]), 0, 1)
OccupancySim(ses, z) ==
    Clip01(Interp01(NormCdf(z), ses.occupancy_min, ses.occupancy_max))

\* np.random.normal(guest_spending_per_night_per_room, spending_std_dev, n); negatives set to 0
SpendSim(ses, e) ==
    Clip0(Normal(ses.guest_spending_per_night_per_room * 100, ses.spending_std_dev * 100, e))

\* revenue_per_night = (adr_sim + spend_sim) * occupancy_sim * n_rooms
RevenuePerNight(ses, adr, spend, occ) == (((adr + spend) * occ) \div 1000) * ses.n_rooms

\* monthly_revenue = revenue_per_night * days_in_month[month]
MonthlyRevenue(ses, m, adr, spend, occ) == RevenuePerNight(ses, adr, spend, occ) * days_in_month[m]

\* One trial (one array index) of the loop body, from its five standard normal
\* draws: noise (hotel.py only), the pair behind z, adr and spend
TrialResult(ses, m, zz1, zz2, occ, adr, spend) ==
    [z1 |-> zz1, z2 |-> zz2, occupancy_sim |-> occ, adr_sim |-> adr,
     spend_sim |-> spend,
     monthly_revenue |-> MonthlyRevenue(ses, m, adr, spend, occ)]

TrialFromShocks(v, ses, m, zz1, zz2, adj, eAdr, eSpend) ==
    TrialResult(ses, m, zz1, zz2, OccupancySim(ses, zz1),
                AdrSim(v, ses, AdrBase(ses, adj), eAdr, zz2), SpendSim(ses, eSpend))

TrialFromDraws(v, ses, m, eNoise, a, b, eAdr, eSpend) ==
    TrialFromShocks(v, ses, m,
                    Z1Of(ses.adr_occupancy_correlation, a, b),
                    Z2Of(ses.adr_occupancy_correlation, a, b),
                    SeasonalAdj(v, ses, m, eNoise), eAdr, eSpend)

\* Trial i of the loop body started with the generator in state s: the calls
\* draw whole arrays one after the other, so trial i takes draw i of the noise
\* array, draws 2i-1 and 2i of the z array, and draw i of the adr and spend arrays
SimTrial(v, ses, m, s, i) ==
    TrialFromDraws(v, ses, m,
                   StdNormalAt(s, i),
                   StdNormalAt(s, NoiseDraws(v, ses.n_simulations) + 2 * i - 1),
                   StdNormalAt(s, NoiseDraws(v, ses.n_simulations) + 2 * i),
                   StdNormalAt(s, NoiseDraws(v, ses.n_simulations) + 2 * ses.n_simulations + i),
                   StdNormalAt(s, NoiseDraws(v, ses.n_simulations) + 3 * ses.n_simulations + i))

\* The trials i..n_simulations of the loop body for month m
RECURSIVE SimTrials(_, _, _, _, _)
SimTrials(v, ses, m, s, i) ==
    IF i > ses.n_simulations THEN << >>
    ELSE <<SimTrial(v, ses, m, s, i)>> \o SimTrials(v, ses, m, s, i + 1)

\* The arrays the loop body leaves, from its trials
MonthArrays(t) ==
    [z1 |-> [i \in DOMAIN t |-> t[i].z1],
     z2 |-> [i \in DOMAIN t |-> t[i].z2],
     occupancy_sim |-> [i \in DOMAIN t |-> t[i].occupancy_sim],
     adr_sim |-> [i \in DOMAIN t |-> t[i].adr_sim],
     spend_sim |-> [i \in DOMAIN t |-> t[i].spend_sim],
     monthly_revenue |-> [i \in DOMAIN t |-> t[i].monthly_revenue]]

\* The whole loop body for month m, started with the generator in state s
SimMonth(v, ses, m, s) == MonthArrays(SimTrials(v, ses, m, s, 1))

\* mutant: the generator is put back to where the loop body found it
RngAfterMonthReset(v, ses, s) == s

\* The generator after the loop body
RngAfterMonth(v, ses, s) == RngAdvance(s, DrawsPerMonth(v, ses.n_simulations))

\* yearly_revenue_sim = np.array(list(results_monthly.values())).sum(axis=0)
RECURSIVE SumOver(_, _, _)
SumOver(res, ms, i) ==
    IF ms = {} THEN 0
    ELSE LET m == CHOOSE x \in ms : TRUE
         IN  res[m][i] + SumOver(res, ms \ {m}, i)

\* mutant: month 2 is summed in reverse trial order
YearlySumMonthReversed(res, n) ==
    [i \in 1..n |-> SumOver(res, DOMAIN res, i) - res[2][i] + res[2][n + 1 - i]]

YearlySum(res, n) == [i \in 1..n |-> SumOver(res, DOMAIN res, i)]

----------------------------------------------------------------------------
(* np.percentile(a, p): linear interpolation between order statistics *)

\* number of elements ordered before position i (ties broken by position)
RankOf(a, i) ==
    Cardinality({j \in DOMAIN a : a[j] < a[i] \/ (a[j] = a[i] /\ j < i)})

\* np.sort
SortAsc(a) == [k \in DOMAIN a |-> a[CHOOSE i \in DOMAIN a : RankOf(a, i) = k - 1]]

\* mutant: the lower order statistic, without interpolation
PercentileLower(a, p) == SortAsc(a)[(p * (Len(a) - 1)) \div 100 + 1]

\* the value at virtual index p/100 * (n-1) of the sorted array (a non-empty, 0 <= p <= 100)
Percentile(a, p) ==
    LET srt  == SortAsc(a)
        n    == Len(a)
        pos  == p * (n - 1)
        lo   == pos \div 100
        frac == pos % 100
        hi   == MinOf(lo + 1, n - 1)
        d    == srt[hi + 1] - srt[lo + 1]
    IN  srt[lo + 1] + frac * (d \div 100) + (frac * (d % 100)) \div 100

----------------------------------------------------------------------------
(* Widget values *)

\* the dict seasonality_coefficients as a session / file value: json.dump turns
\* its integer month keys into strings
SeasonalityDict(kt, vals) == [key_type |-> kt, values |-> vals]

NoDict == SeasonalityDict("absent", << >>)

\* the value= defaults of the widgets (hotel.py 37-76, hotel_revenue_gui.py 76-107);
\* hotel_revenue_gui.py has no elasticity or seasonality-noise widget: the two
\* fields stay 0 there and its loop never reads them
DefaultSession(v) ==
    [n_rooms |-> 11,
     n_simulations |-> 1,
     base_adr |-> 127,
     occupancy_min |-> 300,
     occupancy_mode |-> 600,
     occupancy_max |-> 850,
     adr_std_dev_percentage |-> 70,
     adr_occupancy_correlation |-> -500,
     elasticity_coefficient |-> IF v = "hotel" THEN 200 ELSE 0,
     seasonality |-> IF v = "hotel" THEN default_seasonality_hotel
                     ELSE default_seasonality_gui,
     seasonality_noise_perc |-> IF v = "hotel" THEN 80 ELSE 0,
     guest_spending_per_night_per_room |-> 50,
     spending_std_dev |-> 15,
     seasonality_coefficients |-> IF v = "hotel" THEN NoDict
                                  ELSE SeasonalityDict("int", default_seasonality_gui)]

\* slider positions explored
OccupancyRanges == {<<300, 850>>, <<850, 300>>}

AdrStdDevs == {0, 300}

Correlations == {-1000, -500}

\* a correlation no slider position gives (a scenario file may hold it)
InvalidCorrelations == {1500}

Elasticities(v) == IF v = "hotel" THEN {0, 200} ELSE {0}

SeasonalityNoises(v) == IF v = "hotel" THEN {0, 500} ELSE {0}

SessionsWith(v, corrs) ==
    {[DefaultSession(v) EXCEPT
        !.n_simulations = n,
        !.occupancy_min = o[1],
        !.occupancy_max = o[2],
        !.adr_std_dev_percentage = sd,
        !.adr_occupancy_correlation = c,
        !.elasticity_coefficient = k,
        !.seasonality_noise_perc = sn] :
      n \in 1..MaxTrials, o \in OccupancyRanges, sd \in AdrStdDevs,
      c \in corrs, k \in Elasticities(v), sn \in SeasonalityNoises(v)}

\* what the widgets' min_value / max_value allow (hotel.py 38-76)
ValidSession(ses) ==
    /\ ses.n_rooms >= 1
    /\ ses.n_simulations >= 1
    /\ ses.adr_occupancy_correlation >= -1000
    /\ ses.adr_occupancy_correlation <= 1000

----------------------------------------------------------------------------
(* The simulation part of a script run *)

\* starts: the <<script, widget values>> pairs a run may start with
InitSim(starts) ==
    /\ \E st \in starts : variant = st[1] /\ session = st[2]
    /\ file_exists = FALSE
    /\ saved_scenario = DefaultSession(variant)
    /\ rng \in 0..(RngMod - 1)
    /\ rng_start = rng
    /\ block_start = << >>
    /\ pc = "loop"
    /\ executed = << >>
    /\ results_monthly = << >>
    /\ z1 = << >>
    /\ z2 = << >>
    /\ occupancy_sim = << >>
    /\ adr_sim = << >>
    /\ spend_sim = << >>
    /\ yearly_revenue_sim = << >>
    /\ p5 = 0
    /\ p95 = 0
    /\ out_of_order = 0
    /\ edits = 0
    /\ snapshot = session
    /\ last_op = "none"

StartsWith(corrs) ==
    UNION {{<<v, ses>> : ses \in SessionsWith(v, corrs)} : v \in Variants}

\* the default widget values, for every trial count
DefaultStarts ==
    {<<v, [DefaultSession(v) EXCEPT !.n_simulations = n]>> : v \in Variants, n \in 1..MaxTrials}

Init == InitSim(StartsWith(Correlations))

InitUnvalidated == InitSim(StartsWith(Correlations \cup InvalidCorrelations))

InitAnyOrder == InitSim(DefaultStarts)

Executed == {executed[i] : i \in 1..Len(executed)}

Pending == Months \ Executed

\* the assignments of one pass of the loop body for month m, r its arrays
MonthAssign(m, r) ==
    /\ z1' = r.z1
    /\ z2' = r.z2
    /\ occupancy_sim' = r.occupancy_sim
    /\ adr_sim' = r.adr_sim
    /\ spend_sim' = r.spend_sim
    /\ results_monthly' = (m :> r.monthly_revenue) @@ results_monthly
    /\ rng' = RngAfterMonth(variant, session, rng)
    /\ block_start' = Append(block_start, rng)
    /\ executed' = Append(executed, m)
    /\ UNCHANGED <<variant, yearly_revenue_sim, p5, p95, rng_start, pc>>
    /\ UNCHANGED scenarioVars

\* one pass of the loop body for month m
MonthBody(m) == MonthAssign(m, SimMonth(variant, session, m, rng))

\* for month in range(1, 13)
MonthLoop ==
    /\ pc = "loop"
    /\ Len(executed) < LastMonth
    /\ MonthBody(Len(executed) + 1)
    /\ UNCHANGED out_of_order

\* the loop bodies as tasks that need not run in the order 1..12: a task may
\* overtake the lowest pending month, at most MaxOutOfOrder times in a run
MonthTask(m) ==
    /\ pc = "loop"
    /\ m \in Pending
    /\ \/ /\ \A x \in Pending : m <= x
          /\ UNCHANGED out_of_order
       \/ /\ Cardinality({x \in Pending : x < m}) = 1
          /\ out_of_order < MaxOutOfOrder
          /\ out_of_order' = out_of_order + 1
    /\ MonthBody(m)

\* yearly_revenue_sim = np.array(list(results_monthly.values())).sum(axis=0)
YearlyRevenue ==
    /\ pc = "loop"
    /\ Len(executed) = LastMonth
    /\ yearly_revenue_sim' = YearlySum(results_monthly, session.n_simulations)
    /\ pc' = "results"
    /\ UNCHANGED <<variant, rng, executed, results_monthly, z1, z2, occupancy_sim,
                   adr_sim, spend_sim, p5, p95, rng_start, block_start, out_of_order>>
    /\ UNCHANGED scenarioVars

\* "Annual Revenue Summary": the P5 and P95 metrics
AnnualSummary ==
    /\ pc = "results"
    /\ p5' = Percentile(yearly_revenue_sim, 5)
    /\ p95' = Percentile(yearly_revenue_sim, 95)
    /\ pc' = "done"
    /\ UNCHANGED <<variant, rng, executed, results_monthly, z1, z2, occupancy_sim,
                   adr_sim, spend_sim, yearly_revenue_sim, rng_start, block_start,
                   out_of_order>>
    /\ UNCHANGED scenarioVars

Next == MonthLoop \/ YearlyRevenue \/ AnnualSummary

Spec == Init /\ [][Next]_vars

SpecUnvalidated == InitUnvalidated /\ [][Next]_vars

NextAnyOrder == (\E m \in Months : MonthTask(m)) \/ YearlyRevenue \/ AnnualSummary

\* the loop bodies run as tasks in an order other than 1..12
SpecAnyOrder == InitAnyOrder /\ [][NextAnyOrder]_vars

----------------------------------------------------------------------------
(* Save / Load scenario (hotel.py 78-112, hotel_revenue_gui.py 37-72) *)

\* scenario_data as json.dump writes it and json.load reads it back: numbers
\* come back as written, the month keys of the seasonality dict as strings.
\* hotel.py stores the dict built from the sliders, hotel_revenue_gui.py the
\* session key "seasonality_coefficients" (line 98)
ScenarioData(v, ses) ==
    IF v = "hotel"
    THEN [n_rooms |-> ses.n_rooms,
          n_simulations |-> ses.n_simulations,
          base_adr |-> ses.base_adr,
          occupancy_min |-> ses.occupancy_min,
          occupancy_mode |-> ses.occupancy_mode,
          occupancy_max |-> ses.occupancy_max,
          adr_std_dev_percentage |-> ses.adr_std_dev_percentage,
          adr_occupancy_correlation |-> ses.adr_occupancy_correlation,
          elasticity_coefficient |-> ses.elasticity_coefficient,
          seasonality_coefficients |-> SeasonalityDict("str", ses.seasonality),
          seasonality_noise_perc |-> ses.seasonality_noise_perc,
          guest_spending_per_night_per_room |-> ses.guest_spending_per_night_per_room,
          spending_std_dev |-> ses.spending_std_dev]
    ELSE [n_rooms |-> ses.n_rooms,
          n_simulations |-> ses.n_simulations,
          occupancy_min |-> ses.occupancy_min,
          occupancy_mode |-> ses.occupancy_mode,
          occupancy_max |-> ses.occupancy_max,
          adr_std_dev_percentage |-> ses.adr_std_dev_percentage,
          seasonality_coefficients |->
              SeasonalityDict("str", ses.seasonality_coefficients.values),
          guest_spending_per_night_per_room |-> ses.guest_spending_per_night_per_room,
          spending_std_dev |-> ses.spending_std_dev,
          adr_occupancy_correlation |-> ses.adr_occupancy_correlation,
          base_adr |-> ses.base_adr]

\* st.session_state.update(loaded): every key of the file is set in the
\* session.  The sliders of the seasonality coefficients have the keys
\* seasonality_1 .. seasonality_12 (field seasonality), which the file does not hold
SessionUpdate(ses, loaded) ==
    [k \in DOMAIN ses |-> IF k \in DOMAIN loaded THEN loaded[k] ELSE ses[k]]

\* hotel_revenue_gui.py 97-98: each run stores the slider values under the
\* session key "seasonality_coefficients"
StoreSeasonality(v, ses) ==
    IF v = "gui"
    THEN [ses EXCEPT !.seasonality_coefficients = SeasonalityDict("int", ses.seasonality)]
    ELSE ses

\* the widgets a user changes, and the other position explored for each
ScalarKeys(v) ==
    {"n_rooms", "n_simulations", "base_adr", "occupancy_min", "occupancy_mode",
     "occupancy_max", "adr_std_dev_percentage", "adr_occupancy_correlation",
     "guest_spending_per_night_per_room", "spending_std_dev"}
    \cup (IF v = "hotel" THEN {"elasticity_coefficient", "seasonality_noise_perc"} ELSE {})

OtherPosition ==
    [n_rooms |-> 12, n_simulations |-> 2, base_adr |-> 100, occupancy_min |-> 200,
     occupancy_mode |-> 500, occupancy_max |-> 900, adr_std_dev_percentage |-> 100,
     adr_occupancy_correlation |-> -1000, guest_spending_per_night_per_room |-> 40,
     spending_std_dev |-> 10, elasticity_coefficient |-> 500,
     seasonality_noise_perc |-> 0]

\* the other position explored for a seasonality slider: 1.0
OtherSeasonality == 1000

SetScalar(ses, k, x) == [f \in DOMAIN ses |-> IF f = k THEN x ELSE ses[f]]

InitScenario ==
    /\ variant \in Variants
    /\ session = DefaultSession(variant)
    /\ file_exists = FALSE
    /\ saved_scenario = << >>
    /\ rng \in {0}
    /\ rng_start = rng
    /\ block_start = << >>
    /\ pc = "inputs"
    /\ executed = << >>
    /\ results_monthly = << >>
    /\ z1 = << >>
    /\ z2 = << >>
    /\ occupancy_sim = << >>
    /\ adr_sim = << >>
    /\ spend_sim = << >>
    /\ yearly_revenue_sim = << >>
    /\ p5 = 0
    /\ p95 = 0
    /\ out_of_order = 0
    /\ edits = 0
    /\ snapshot = session
    /\ last_op = "none"

\* the user moves one widget (to its other position, or back)
ChangeInput ==
    /\ pc = "inputs"
    /\ edits < MaxEdits
    /\ \/ \E k \in ScalarKeys(variant) :
            session' = SetScalar(session, k,
                                 IF session[k] = OtherPosition[k]
                                 THEN DefaultSession(variant)[k] ELSE OtherPosition[k])
       \/ \E m \in Months :
            session' = StoreSeasonality(variant,
                          [session EXCEPT !.seasonality[m] =
                              IF @ = OtherSeasonality
                              THEN DefaultSession(variant).seasonality[m]
                              ELSE OtherSeasonality])
    /\ edits' = edits + 1
    /\ last_op' = "edit"
    /\ UNCHANGED <<variant, file_exists, saved_scenario, snapshot>>
    /\ UNCHANGED simVars

\* if st.button("Save Current Scenario")
SaveScenario ==
    /\ pc = "inputs"
    /\ saved_scenario' = ScenarioData(variant, session)
    /\ file_exists' = TRUE
    /\ snapshot' = session
    /\ last_op' = "save"
    /\ UNCHANGED <<variant, session, edits>>
    /\ UNCHANGED simVars

\* if st.button("Load Last Scenario"): the try branch, then the rest of the run
LoadScenario ==
    /\ pc = "inputs"
    /\ file_exists
    /\ session' = StoreSeasonality(variant, SessionUpdate(session, saved_scenario))
    /\ last_op' = "load"
    /\ UNCHANGED <<variant, file_exists, saved_scenario, edits, snapshot>>
    /\ UNCHANGED simVars

\* the except branch: st.error("No saved scenario found.")
LoadFailed ==
    /\ pc = "inputs"
    /\ ~file_exists
    /\ last_op' = "load_failed"
    /\ UNCHANGED <<variant, session, file_exists, saved_scenario, edits, snapshot>>
    /\ UNCHANGED simVars

NextScenario == ChangeInput \/ SaveScenario \/ LoadScenario \/ LoadFailed

SpecScenario == InitScenario /\ [][NextScenario]_vars

----------------------------------------------------------------------------
(* Properties *)

LastExecuted == executed[Len(executed)]

Trials == 1..session.n_simulations

LoopDone == pc \in {"results", "done"}

\* the months of a year and the days of each, as the specification states them
CalendarDays == <<31, 28, 31, 30, 31, 30, 31, 31, 30, 31, 30, 31>>

\* C1: after a run, the annual array is the sum of the twelve monthly arrays
\* at the same trial index, for every trial index.
C1_AnnualIsElementwiseSum ==
    LoopDone =>
        /\ DOMAIN yearly_revenue_sim = Trials
        /\ \A i \in Trials :
              yearly_revenue_sim[i] =
                  results_monthly[1][i] + results_monthly[2][i] + results_monthly[3][i]
                + results_monthly[4][i] + results_monthly[5][i] + results_monthly[6][i]
                + results_monthly[7][i] + results_monthly[8][i] + results_monthly[9][i]
                + results_monthly[10][i] + results_monthly[11][i] + results_monthly[12][i]

\* a finished run with two trials whose monthly and annual values differ
\* between the trials, so that the pairing by index matters
C1_Witness ==
    /\ pc = "done"
    /\ session.n_simulations >= 2
    /\ yearly_revenue_sim[1] # yearly_revenue_sim[2]
    /\ \A m \in 1..12 : results_monthly[m][1] # results_monthly[m][2]

\* C2: for a valid configuration every monthly array has n_simulations
\* elements, a finished loop has produced exactly the months 1..12, and the
\* annual array has n_simulations elements too.
C2_ArrayLengths ==
    ValidSession(session) =>
        /\ \A m \in DOMAIN results_monthly : Len(results_monthly[m]) = session.n_simulations
        /\ DOMAIN results_monthly \subseteq 1..12
        /\ LoopDone =>
              /\ DOMAIN results_monthly = 1..12
              /\ Len(yearly_revenue_sim) = session.n_simulations

\* a finished run of more than one trial
C2_Witness ==
    /\ pc = "done"
    /\ ValidSession(session)
    /\ session.n_simulations >= 2
    /\ Cardinality(DOMAIN results_monthly) = 12

\* C3: in every month and trial the occupancy sample is in [0,1], the rate
\* and spending samples are >= 0, and so is every monthly and annual value.
C3_SamplesInRange ==
    /\ \A i \in DOMAIN occupancy_sim : occupancy_sim[i] >= 0 /\ occupancy_sim[i] <= 1000
    /\ \A i \in DOMAIN adr_sim : adr_sim[i] >= 0
    /\ \A i \in DOMAIN spend_sim : spend_sim[i] >= 0
    /\ \A m \in DOMAIN results_monthly :
          \A i \in DOMAIN results_monthly[m] : results_monthly[m][i] >= 0
    /\ \A i \in DOMAIN yearly_revenue_sim : yearly_revenue_sim[i] >= 0

\* a loop body in which the draws were low enough for both clips to act: a
\* rate sample and a spending sample of 0 (the spending mean is 50), beside a
\* positive rate sample
C3_Witness ==
    /\ executed # << >>
    /\ session.n_rooms >= 1
    /\ \E i \in DOMAIN adr_sim : adr_sim[i] = 0
    /\ \E i \in DOMAIN spend_sim : spend_sim[i] = 0
    /\ \E i \in DOMAIN adr_sim : adr_sim[i] > 0

\* C8: the monthly value of trial i is (rate + spending) x occupancy x rooms
\* x days of the month, with the non-leap day table (February 28, 365 in all).
C8_MonthlyRevenueFormula ==
    executed # << >> =>
        \A i \in Trials :
            results_monthly[LastExecuted][i] =
                (((adr_sim[i] + spend_sim[i]) * occupancy_sim[i]) \div 1000)
                    * session.n_rooms * CalendarDays[LastExecuted]

\* the loop body of February has run and left a positive revenue
C8_Witness ==
    /\ executed # << >>
    /\ LastExecuted = 2
    /\ \E i \in Trials : results_monthly[2][i] > 0 /\ spend_sim[i] > 0 /\ adr_sim[i] > 0

\* base_adr x seasonality_coefficients[m], in cents
MonthBaseRate(ses, m) == (ses.base_adr * 100 * ses.seasonality[m]) \div 1000

\* C4 as stated: with adr_std_dev_fraction = 0 and elasticity_coefficient = 0
\* every rate sample of month m equals base_adr x seasonality_coefficients[m].
C4_RateIsMonthBaseRate ==
    (/\ executed # << >>
     /\ session.adr_std_dev_percentage = 0
     /\ session.elasticity_coefficient = 0)
    => \A i \in Trials : adr_sim[i] = MonthBaseRate(session, LastExecuted)

\* C4 as amended: with adr_std_dev_fraction = 0, the rate samples of hotel.py
\* equal base_adr x seasonality_coefficients[m] when elasticity_coefficient
\* and seasonality_noise_perc are 0 too; those of hotel_revenue_gui.py, whose
\* elasticity is the fixed 0.2, equal that rate x (1 - 0.2 z2), clipped at 0.
C4_RateWithoutNoise ==
    (executed # << >> /\ session.adr_std_dev_percentage = 0) =>
        /\ (/\ variant = "hotel"
            /\ session.elasticity_coefficient = 0
            /\ session.seasonality_noise_perc = 0)
           => \A i \in Trials : adr_sim[i] = MonthBaseRate(session, LastExecuted)
        /\ variant = "gui"
           => \A i \in Trials :
                 adr_sim[i] =
                     MaxOf(0, (MonthBaseRate(session, LastExecuted)
                                 * (1000 - (200 * z2[i]) \div 1000)) \div 1000)

\* hotel.py has run the loop body of August with no rate volatility, no
\* elasticity and no seasonality noise
C4_Witness ==
    /\ executed # << >>
    /\ LastExecuted = 8
    /\ variant = "hotel"
    /\ session.adr_std_dev_percentage = 0
    /\ session.elasticity_coefficient = 0
    /\ session.seasonality_noise_perc = 0
    /\ \A i \in Trials : adr_sim[i] = 30353

\* C5: a run whose input is invalid (here a correlation outside [-1,1])
\* produces no monthly and no annual result.
C5_InvalidInputRejected ==
    ~ValidSession(session) => (DOMAIN results_monthly = {} /\ ~LoopDone)

MinOfSeq(a) == CHOOSE x \in {a[i] : i \in DOMAIN a} : \A j \in DOMAIN a : x <= a[j]

MaxOfSeq(a) == CHOOSE x \in {a[i] : i \in DOMAIN a} : \A j \in DOMAIN a : x >= a[j]

OneToTenEuros == <<100, 200, 300, 400, 500, 600, 700, 800, 900, 1000>>

\* P0, P5, P95 and P100 of an array with minimum lo and maximum hi
PercentilesBetween(a, lo, hi, q0, q5, q95, q100) ==
    /\ q0 = lo
    /\ q100 = hi
    /\ lo <= q5
    /\ q5 <= q95
    /\ q95 <= hi
    /\ Len(a) = 1 => q5 = lo
    /\ Len(a) = 2 => (q5 - lo) + (q95 - lo) \in {hi - lo - 1, hi - lo}

\* C6: the percentile interpolates linearly between order statistics: P0 is
\* the minimum, P100 the maximum, for 1..10 P0 = 1, P50 = 5.5, P100 = 10, and
\* the reported interval has P5 <= P95 (both between minimum and maximum; of
\* two values, P5 and P95 lie 5% and 95% of the way from the lower to the higher).
C6_PercentileInterpolation ==
    /\ Percentile(OneToTenEuros, 0) = 100
    /\ Percentile(OneToTenEuros, 50) = 550
    /\ Percentile(OneToTenEuros, 100) = 1000
    /\ pc = "done" =>
          PercentilesBetween(yearly_revenue_sim,
                             MinOfSeq(yearly_revenue_sim), MaxOfSeq(yearly_revenue_sim),
                             Percentile(yearly_revenue_sim, 0), p5, p95,
                             Percentile(yearly_revenue_sim, 100))

\* the summary of a run with several distinct annual values, given out of
\* order: P5 and P95 lie strictly between the minimum and the maximum
C6_Witness ==
    /\ pc = "done"
    /\ Len(yearly_revenue_sim) >= 2
    /\ yearly_revenue_sim[1] > yearly_revenue_sim[2]
    /\ MinOfSeq(yearly_revenue_sim) < p5
    /\ p5 < p95
    /\ p95 < MaxOfSeq(yearly_revenue_sim)

\* C7 as stated: whatever the order in which the twelve loop bodies ran, the
\* monthly results (and so the annual result) are those of the order 1..12,
\* in which month m draws the m-th block of the generator's stream.
C7_OrderIndependent ==
    pc = "done" =>
        \A m \in 1..12 :
            results_monthly[m] = SimMonth(variant, session, m, block_start[m]).monthly_revenue

\* the positions of the run whose entry is compared with its block of draws:
\* the entry just written while the loop runs, every entry once it is over
WrittenOrFinal ==
    IF pc = "loop" THEN {Len(executed)} \ {0} ELSE 1..Len(executed)

\* C7 as amended: the loop bodies share the global generator.  Each advances
\* it by its draws and writes only its own entry of results_monthly; the body
\* that runs k-th computes its month from the k-th block of draws, so the
\* results are those of the order 1..12 when the bodies run in that order.
C7_ResultsFollowExecutionOrder ==
    /\ DOMAIN results_monthly = Executed
    /\ Len(block_start) = Len(executed)
    /\ \A k \in 1..Len(executed) :
          block_start[k] = IF k = 1 THEN rng_start
                           ELSE RngAdvance(block_start[k - 1],
                                           DrawsPerMonth(variant, session.n_simulations))
    /\ \A k \in WrittenOrFinal :
          results_monthly[executed[k]] =
              SimMonth(variant, session, executed[k], block_start[k]).monthly_revenue
    /\ rng = IF executed = << >> THEN rng_start
             ELSE RngAdvance(block_start[Len(executed)],
                             DrawsPerMonth(variant, session.n_simulations))

\* a finished run in which a loop body overtook a lower month and a monthly
\* result differs from that of the order 1..12
C7_Witness ==
    /\ pc = "done"
    /\ out_of_order > 0
    /\ \E m \in 1..12 :
          results_monthly[m] # SimMonth(variant, session, m, block_start[m]).monthly_revenue

OccupancyModes == {300, 1000}

\* C9: with the same draws, a configuration that differs only in
\* occupancy_mode gives the same occupancy samples and monthly results (the
\* annual result is their sum), and every occupancy sample lies in
\* [occupancy_min, occupancy_max] when occupancy_min <= occupancy_max.
C9_OccupancyModeUnused ==
    executed # << >> =>
        /\ \A mo \in OccupancyModes :
              SimMonth(variant, [session EXCEPT !.occupancy_mode = mo],
                       LastExecuted, block_start[Len(executed)])
                = [z1 |-> z1, z2 |-> z2, occupancy_sim |-> occupancy_sim,
                   adr_sim |-> adr_sim, spend_sim |-> spend_sim,
                   monthly_revenue |-> results_monthly[LastExecuted]]
        /\ session.occupancy_min <= session.occupancy_max =>
              \A i \in Trials :
                  /\ session.occupancy_min <= occupancy_sim[i]
                  /\ occupancy_sim[i] <= session.occupancy_max

\* a loop body has produced occupancy samples strictly inside the range, on
\* either side of a mode that differs from the ones compared with
C9_Witness ==
    /\ executed # << >>
    /\ session.occupancy_min < session.occupancy_max
    /\ session.occupancy_mode \notin OccupancyModes
    /\ \E i \in Trials :
          session.occupancy_min < occupancy_sim[i] /\ occupancy_sim[i] < session.occupancy_mode
    /\ \E i \in Trials :
          session.occupancy_mode < occupancy_sim[i] /\ occupancy_sim[i] < session.occupancy_max

\* the parameters the simulation reads
SimParams(ses) ==
    <<ses.n_rooms, ses.n_simulations, ses.base_adr, ses.occupancy_min,
      ses.occupancy_mode, ses.occupancy_max, ses.adr_std_dev_percentage,
      ses.adr_occupancy_correlation, ses.elasticity_coefficient, ses.seasonality,
      ses.seasonality_noise_perc, ses.guest_spending_per_night_per_room,
      ses.spending_std_dev>>

\* C10: after "Save Current Scenario", any changes, and "Load Last Scenario",
\* every parameter the simulation reads has the value it had when saved.
C10_SaveLoadRoundTrip ==
    last_op = "load" => SimParams(session) = SimParams(snapshot)

====
